---- MODULE Spec2Model ----
(***************************************************************************)
(* The Mercuryo widget session controller of fuseio/solid-ui: the two      *)
(* near-identical components MercuryoIframeWidget                           *)
(* (app/(protected)/(tabs)/buy-crypto/index.tsx) and BuyCrypto, their       *)
(* signature and URL builders, the build effect, the message listener       *)
(* effect and the render function.                                          *)
(*                                                                          *)
(* A JavaScript string is a sequence of tokens; a token is a record         *)
(* [c, h]: c is a character or an atomic chunk of text, h is empty except   *)
(* for a digest token, where it holds the hashed string.                    *)
(***************************************************************************)
EXTENDS Integers, Sequences, FiniteSets

\* ---------------------------------------------------------------- bounds

\* Number of times the build effect may run in one component instance
\* (the mount plus the identity changes).
MaxRuns == 2

\* Largest value the millisecond clock (Date.now) takes.
MaxClock == 1

\* ---------------------------------------------------------------- strings

Ch(s) == [c |-> s, h |-> <<>>]

S(s) == <<Ch(s)>>

Digits == <<"0", "1", "2", "3", "4", "5", "6", "7", "8", "9">>

RECURSIVE toString(_)
\* Number.prototype.toString: the decimal digits of n.
toString(n) ==
  IF n < 10 THEN S(Digits[n + 1])
  ELSE toString(n \div 10) \o S(Digits[(n % 10) + 1])

\* Crypto.digestStringAsync(SHA512, s): one hex chunk, a function of s only.
Digest(s) == <<[c |-> "sha512", h |-> s]>>

EncodeCh(t) ==
  IF t.h # <<>> THEN t
  ELSE IF t.c = ":" THEN Ch("%3A")
  ELSE IF t.c = "&" THEN Ch("%26")
  ELSE IF t.c = "=" THEN Ch("%3D")
  ELSE IF t.c = "?" THEN Ch("%3F")
  ELSE IF t.c = "/" THEN Ch("%2F")
  ELSE t

encodeURIComponent(str) == [i \in 1..Len(str) |-> EncodeCh(str[i])]

\* ---------------------------------------------------------------- inputs

Components == {"MercuryoIframeWidget", "BuyCrypto"}

Addresses == {S("0xA"), S("0xB")}

\* useUser(): no user object, a user without safeAddress, a user with one.
NoUser == [present |-> FALSE, safeAddress |-> <<>>]

Users ==
  {NoUser} \cup {[present |-> TRUE, safeAddress |-> a] : a \in Addresses \cup {<<>>}}

\* process.env.EXPO_PUBLIC_MERCURYO_WIDGET_ID / _SECRET; <<>> is unset.
WidgetIds == {<<>>, S("wid")}

WidgetSecrets == {<<>>, S("s3cr3t")}

Ips == {S("1.2.3.4")}

\* Strings with query-string metacharacters in them, next to plain ones.
RawAddresses == Addresses \cup {<<Ch("0xA"), Ch("&"), Ch("currency"), Ch("="), Ch("BTC")>>}

RawWidgetIds == {S("wid"), <<Ch("wid"), Ch("="), Ch("1")>>}

RawSecrets == {S("s3cr3t"), S("k3y")}

RawIps == {S("1.2.3.4"), S("5.6.7.8")}

\* The onClose prop; "none" is undefined.
Callbacks == {"none", "cb1", "cb2"}

Statuses == {"absent", "success", "failure", "other"}

Events == {"absent", "transaction.success", "transaction.failure", "other"}

\* event.data of a MessageEvent.
Payloads ==
  [type : {"object"}, status : Statuses, event : Events]
    \cup [type : {"null", "string", "undefined"}, status : {"absent"}, event : {"absent"}]

NoMsg == [type |-> "none", status |-> "absent", event |-> "absent"]

NoError == "null"

\* ---------------------------------------------------------------- state

VARIABLES
  comp,          \* which of the two components this instance is
  widgetId,      \* process.env.EXPO_PUBLIC_MERCURYO_WIDGET_ID
  widgetSecret,  \* process.env.EXPO_PUBLIC_MERCURYO_WIDGET_SECRET
  phase,         \* "init" (constructed), "mounted", "unmounted"
  loading,       \* useState(true)
  error,         \* useState<string | null>(null)
  finalUrl,      \* useState<string>("")
  user,          \* useUser().user
  onClose,       \* the onClose prop of the current render
  mountOnClose,  \* the onClose prop of the first render
  listeners,     \* window's "message" listeners, each with the onClose it closes over
  runs,          \* one record per run of buildUrl
  now,           \* Date.now()
  lastMsg,       \* the last message posted to the window
  fired,         \* the completion actions that message caused, in order
  thrown         \* what became of an exception in its handler: "none", "caught", "escaped"

vars ==
  <<comp, widgetId, widgetSecret, phase, loading, error, finalUrl, user, onClose,
    mountOnClose, listeners, runs, now, lastMsg, fired, thrown>>

envVars == <<comp, widgetId, widgetSecret>>

uiVars == <<loading, error, finalUrl>>

msgVars == <<lastMsg, fired, thrown>>

\* ---------------------------------------------------------------- builders

\* A signature over the four inputs with the secret first.
concatenatedString_SecretFirst(address, secret, ip, merchantTransactionId) ==
  secret \o address \o ip \o merchantTransactionId

concatenatedString(address, secret, ip, merchantTransactionId) ==
  address \o secret \o ip \o merchantTransactionId

createWidgetSignature(address, secret, ip, merchantTransactionId) ==
  S("v2") \o S(":") \o Digest(concatenatedString(address, secret, ip, merchantTransactionId))

Param(k, v) == S("&") \o S(k) \o S("=") \o v

\* The URL buildMercuryoWidgetUrl returns once the signature is there.
WidgetUrl(c, address, wid, merchantTransactionId, signature) ==
  S("https://exchange.mercuryo.io/") \o S("?") \o S("widget_id") \o S("=") \o wid
    \o Param("address", address)
    \o Param("merchant_transaction_id", merchantTransactionId)
    \o Param("signature", encodeURIComponent(signature))
    \o (IF c = "MercuryoIframeWidget" THEN Param("type", S("buy")) ELSE <<>>)
    \o Param("fiat_currency", S("EUR"))
    \o Param("networks", S("ETHEREUM"))
    \o Param("currency", S("USDC"))
    \o (IF c = "BuyCrypto" THEN Param("theme", S("exolix")) ELSE <<>>)

\* A builder that also sends the secret along.
buildMercuryoWidgetUrl_LeaksSecret(c, address, wid, secret, userIp, merchantTransactionId) ==
  WidgetUrl(c, address, wid, merchantTransactionId,
            createWidgetSignature(address, secret, userIp, merchantTransactionId))
    \o Param("secret", secret)

buildMercuryoWidgetUrl(c, address, wid, secret, userIp, merchantTransactionId) ==
  WidgetUrl(c, address, wid, merchantTransactionId,
            createWidgetSignature(address, secret, userIp, merchantTransactionId))

\* ---------------------------------------------------------------- render

\* The JSX with the iframe branch tested before the error branch.
Render_IframeFirst ==
  [spinner |-> loading,
   body    |-> IF finalUrl # <<>> THEN "iframe"
               ELSE IF error # NoError THEN "error"
               ELSE "none"]

\* What the component's JSX shows for the current state.
Render ==
  [spinner |-> loading,
   body    |-> IF error # NoError THEN "error"
               ELSE IF finalUrl # <<>> THEN "iframe"
               ELSE "none"]

\* The session state of the specification, read off the rendered state.
Session ==
  IF error # NoError THEN "Error"
  ELSE IF finalUrl # <<>> THEN "Ready"
  ELSE IF loading THEN "Loading"
  ELSE "Blank"

\* ---------------------------------------------------------------- messages

\* handleClose (MercuryoIframeWidget) / onClose?.() (BuyCrypto), with the
\* onClose the listener closes over.
handleClose(c, cb) ==
  IF cb # "none" THEN <<cb>>
  ELSE IF c = "MercuryoIframeWidget" THEN <<"back">>
  ELSE <<>>

\* handleMessage with the failure test as a second if instead of an else-if.
handleMessage_TwoIfs(c, cb, d) ==
  IF d.type = "object" THEN
    (IF d.status = "success" \/ d.event = "transaction.success" THEN handleClose(c, cb) ELSE <<>>)
      \o (IF d.status = "failure" \/ d.event = "transaction.failure" THEN handleClose(c, cb) ELSE <<>>)
  ELSE <<>>

\* handleMessage: the completion actions one listener runs for event.data = d.
\* typeof null is "object", and reading a property of null throws inside the
\* try block.
handleMessage(c, cb, d) ==
  IF d.type \in {"object", "null"} THEN
    IF d.type = "null" THEN <<>>
    ELSE IF d.status = "success" \/ d.event = "transaction.success" THEN handleClose(c, cb)
    ELSE IF d.status = "failure" \/ d.event = "transaction.failure" THEN handleClose(c, cb)
    ELSE <<>>
  ELSE <<>>

\* Whether the try block of handleMessage throws: event.data.status is read
\* once typeof event.data is "object", and null has no properties.
TryThrows(d) == d.type = "null"

\* A handler without the try/catch around its body.
Catch_Rethrow(threw) == IF threw THEN "escaped" ELSE "none"

\* The catch block of handleMessage: the exception is logged.
Catch(threw) == IF threw THEN "caught" ELSE "none"

\* What became of the exceptions of the listeners ls for event.data = d.
DispatchThrown(ls, d) == IF ls = <<>> THEN "none" ELSE Catch(TryThrows(d))

RECURSIVE Dispatch(_, _, _)
\* window dispatches a message event to every registered listener in turn.
Dispatch(c, ls, d) ==
  IF ls = <<>> THEN <<>>
  ELSE handleMessage(c, Head(ls).captured, d) \o Dispatch(c, Tail(ls), d)

addEventListener(ls, cb) == Append(ls, [captured |-> cb])

RECURSIVE removeEventListener(_, _)
removeEventListener(ls, cb) ==
  IF ls = <<>> THEN <<>>
  ELSE IF Head(ls).captured = cb THEN Tail(ls)
  ELSE <<Head(ls)>> \o removeEventListener(Tail(ls), cb)

\* A cleanup that forgets removeEventListener.
ListenerCleanup_Leak(ls, cb) == ls

\* The cleanup of the listener effect.
ListenerCleanup(ls, cb) == removeEventListener(ls, cb)

\* Both components with the empty dependency list of MercuryoIframeWidget.
Resubscribe_Never(c, ls, old, new) == ls

\* The listener effect when the onClose prop changes from old to new:
\* BuyCrypto lists onClose as a dependency, MercuryoIframeWidget lists none.
Resubscribe(c, ls, old, new) ==
  IF c = "BuyCrypto" THEN addEventListener(ListenerCleanup(ls, old), new)
  ELSE ls

\* The onClose the one listener of this instance closes over.
Captured == IF comp = "BuyCrypto" THEN onClose ELSE mountOnClose

\* ---------------------------------------------------------------- the build effect

NoRun(u, p) ==
  [user |-> u, pc |-> p, userIp |-> <<>>, merchantTransactionId |-> <<>>]

\* buildUrl without the test of the address.
StartPc_NoAddressTest(u) == IF ~u.present THEN "nouser" ELSE "ip"

\* buildUrl up to its first await, for the user object u of this render.
StartPc(u) ==
  IF ~u.present THEN "nouser"
  ELSE IF u.safeAddress = <<>> THEN "noaddr"
  ELSE "ip"

\* The error message buildUrl leaves after its synchronous part.
StartError(u) == IF StartPc(u) = "noaddr" THEN "No address provided" ELSE NoError

StartLoading(u) == IF StartPc(u) = "noaddr" THEN FALSE ELSE loading

RunBuildUrl(u) ==
  /\ runs' = Append(runs, NoRun(u, StartPc(u)))
  /\ error' = StartError(u)
  /\ loading' = StartLoading(u)
  /\ finalUrl' = finalUrl

\* The configuration test with the secret forgotten.
ConfigMissing_IdOnly == widgetId = <<>>

ConfigMissing == widgetId = <<>> \/ widgetSecret = <<>>

\* The catch block of buildUrl; a state setter of an unmounted component
\* does nothing.
BuildFailed ==
  IF phase = "mounted"
  THEN error' = "Failed to initialize widget" /\ loading' = FALSE /\ finalUrl' = finalUrl
  ELSE UNCHANGED uiVars

\* ---------------------------------------------------------------- actions

Init ==
  /\ comp \in Components
  /\ widgetId \in WidgetIds
  /\ widgetSecret \in WidgetSecrets
  /\ phase = "init"
  /\ loading = TRUE
  /\ error = NoError
  /\ finalUrl = <<>>
  /\ user \in Users
  /\ onClose \in Callbacks
  /\ mountOnClose = onClose
  /\ listeners = <<>>
  /\ runs = <<>>
  /\ now = 0
  /\ lastMsg = NoMsg
  /\ fired = <<>>
  /\ thrown = "none"

\* First commit: both effects run.
Mount ==
  /\ phase = "init"
  /\ phase' = "mounted"
  /\ listeners' = addEventListener(listeners, onClose)
  /\ RunBuildUrl(user)
  /\ UNCHANGED <<envVars, user, onClose, mountOnClose, now, msgVars>>

\* useUser() returns another user object: the build effect runs again.
SetUser(u) ==
  /\ phase = "mounted"
  /\ Len(runs) < MaxRuns
  /\ user' = u
  /\ RunBuildUrl(u)
  /\ UNCHANGED <<envVars, phase, onClose, mountOnClose, listeners, now, msgVars>>

\* The parent renders the component with another onClose prop.
SetOnClose(cb) ==
  /\ phase = "mounted"
  /\ cb # onClose
  /\ onClose' = cb
  /\ listeners' = Resubscribe(comp, listeners, onClose, cb)
  /\ UNCHANGED <<envVars, phase, uiVars, user, mountOnClose, runs, now, msgVars>>

\* await getClientIp() resolves; buildUrl goes on to the configuration check
\* and into buildMercuryoWidgetUrl up to its await of the digest.
IpResolve(r, ip) ==
  /\ r \in 1..Len(runs)
  /\ runs[r].pc = "ip"
  /\ IF ConfigMissing
     THEN /\ runs' = [runs EXCEPT ![r].pc = "failed", ![r].userIp = ip]
          /\ BuildFailed
     ELSE /\ runs' = [runs EXCEPT ![r].pc = "hash", ![r].userIp = ip,
                                  ![r].merchantTransactionId = toString(now)]
          /\ UNCHANGED uiVars
  /\ UNCHANGED <<envVars, phase, user, onClose, mountOnClose, listeners, now, msgVars>>

\* await getClientIp() rejects.
IpReject(r) ==
  /\ r \in 1..Len(runs)
  /\ runs[r].pc = "ip"
  /\ runs' = [runs EXCEPT ![r].pc = "failed"]
  /\ BuildFailed
  /\ UNCHANGED <<envVars, phase, user, onClose, mountOnClose, listeners, now, msgVars>>

\* The URL run r of buildUrl gets back from buildMercuryoWidgetUrl.
RunUrl(r) ==
  buildMercuryoWidgetUrl(comp, runs[r].user.safeAddress, widgetId, widgetSecret,
                         runs[r].userIp, runs[r].merchantTransactionId)

\* A success path that also resets the error.
BuildDone_ClearsError(r) ==
  IF phase = "mounted"
  THEN finalUrl' = RunUrl(r) /\ error' = NoError /\ loading' = loading
  ELSE UNCHANGED uiVars

\* A success path that forgets setFinalUrl.
BuildDone_NoDisplay(r) == UNCHANGED uiVars

\* setFinalUrl(widgetUrl).
BuildDone(r) ==
  IF phase = "mounted"
  THEN finalUrl' = RunUrl(r) /\ UNCHANGED <<loading, error>>
  ELSE UNCHANGED uiVars

\* The digest resolves: the URL is assembled and displayed.
HashResolve(r) ==
  /\ r \in 1..Len(runs)
  /\ runs[r].pc = "hash"
  /\ runs' = [runs EXCEPT ![r].pc = "done"]
  /\ BuildDone(r)
  /\ UNCHANGED <<envVars, phase, user, onClose, mountOnClose, listeners, now, msgVars>>

\* The digest rejects: buildMercuryoWidgetUrl logs and rethrows.
HashReject(r) ==
  /\ r \in 1..Len(runs)
  /\ runs[r].pc = "hash"
  /\ runs' = [runs EXCEPT ![r].pc = "failed"]
  /\ BuildFailed
  /\ UNCHANGED <<envVars, phase, user, onClose, mountOnClose, listeners, now, msgVars>>

handleIframeLoad ==
  /\ phase = "mounted"
  /\ Render.body = "iframe"
  /\ loading' = FALSE
  /\ UNCHANGED <<envVars, phase, error, finalUrl, user, onClose, mountOnClose, listeners,
                 runs, now, msgVars>>

handleIframeError ==
  /\ phase = "mounted"
  /\ Render.body = "iframe"
  /\ error' = "Failed to load Mercuryo widget. Please try again later."
  /\ loading' = FALSE
  /\ UNCHANGED <<envVars, phase, finalUrl, user, onClose, mountOnClose, listeners,
                 runs, now, msgVars>>

\* A message event on window, whatever the component's phase.
ReceiveMessage(d) ==
  /\ lastMsg' = d
  /\ fired' = Dispatch(comp, listeners, d)
  /\ thrown' = DispatchThrown(listeners, d)
  /\ UNCHANGED <<envVars, phase, uiVars, user, onClose, mountOnClose, listeners, runs, now>>

\* The component is torn down: the listener effect's cleanup runs.
Unmount ==
  /\ phase = "mounted"
  /\ phase' = "unmounted"
  /\ listeners' = ListenerCleanup(listeners, Captured)
  /\ UNCHANGED <<envVars, uiVars, user, onClose, mountOnClose, runs, now, msgVars>>

Tick ==
  /\ now < MaxClock
  /\ now' = now + 1
  /\ UNCHANGED <<envVars, phase, uiVars, user, onClose, mountOnClose, listeners, runs,
                 msgVars>>

\* A promise of run r settles.
IpSettle(r) == IpReject(r) \/ \E ip \in Ips : IpResolve(r, ip)

HashSettle(r) == HashResolve(r) \/ HashReject(r)

Next ==
  \/ Mount
  \/ \E u \in Users : SetUser(u)
  \/ \E cb \in Callbacks : SetOnClose(cb)
  \/ \E r \in 1..MaxRuns, ip \in Ips : IpResolve(r, ip)
  \/ \E r \in 1..MaxRuns : IpReject(r)
  \/ \E r \in 1..MaxRuns : HashResolve(r)
  \/ \E r \in 1..MaxRuns : HashReject(r)
  \/ handleIframeLoad
  \/ handleIframeError
  \/ \E d \in Payloads : ReceiveMessage(d)
  \/ Unmount
  \/ Tick

\* The whole component: every action.
Spec == Init /\ [][Next]_vars

\* The build side: the message actions, which read and write only onClose,
\* listeners, lastMsg and fired, are left out.
NextBuild ==
  \/ Mount
  \/ \E u \in Users : SetUser(u)
  \/ \E r \in 1..MaxRuns, ip \in Ips : IpResolve(r, ip)
  \/ \E r \in 1..MaxRuns : IpReject(r)
  \/ \E r \in 1..MaxRuns : HashResolve(r)
  \/ \E r \in 1..MaxRuns : HashReject(r)
  \/ handleIframeLoad
  \/ handleIframeError
  \/ Unmount
  \/ Tick

\* The build never reads the onClose prop: one value of it is enough here.
InitBuild == Init /\ onClose = "none"

SpecBuild == InitBuild /\ [][NextBuild]_vars

\* The build side with the clock standing still.
NextLive ==
  \/ Mount
  \/ \E u \in Users : SetUser(u)
  \/ \E r \in 1..MaxRuns, ip \in Ips : IpResolve(r, ip)
  \/ \E r \in 1..MaxRuns : IpReject(r)
  \/ \E r \in 1..MaxRuns : HashResolve(r)
  \/ \E r \in 1..MaxRuns : HashReject(r)
  \/ handleIframeLoad
  \/ handleIframeError
  \/ Unmount

\* Every pending promise settles: the event loop runs each continuation.
FairBuild ==
  /\ InitBuild
  /\ [][NextLive]_vars
  /\ \A r \in 1..MaxRuns : WF_vars(IpSettle(r)) /\ WF_vars(HashSettle(r))

\* The message side, over the session of the mount-time build: identity
\* changes and the clock, which the listener never reads, are left out.
NextMsg ==
  \/ Mount
  \/ \E cb \in Callbacks : SetOnClose(cb)
  \/ \E r \in 1..MaxRuns, ip \in Ips : IpResolve(r, ip)
  \/ \E r \in 1..MaxRuns : IpReject(r)
  \/ \E r \in 1..MaxRuns : HashResolve(r)
  \/ \E r \in 1..MaxRuns : HashReject(r)
  \/ handleIframeLoad
  \/ handleIframeError
  \/ \E d \in Payloads : ReceiveMessage(d)
  \/ Unmount

SpecMsg == Init /\ [][NextMsg]_vars

\* The builders on their own: one build per behaviour, for every combination
\* of address, widget id, secret, IP and clock value of the Raw sets.
InitUrl ==
  /\ comp \in Components
  /\ widgetId \in RawWidgetIds
  /\ widgetSecret \in RawSecrets
  /\ phase = "init"
  /\ loading = TRUE
  /\ error = NoError
  /\ finalUrl = <<>>
  /\ user \in {[present |-> TRUE, safeAddress |-> a] : a \in RawAddresses}
  /\ onClose = "none"
  /\ mountOnClose = onClose
  /\ listeners = <<>>
  /\ runs = <<>>
  /\ now = 0
  /\ lastMsg = NoMsg
  /\ fired = <<>>
  /\ thrown = "none"

NextUrl ==
  \/ Mount
  \/ \E r \in 1..MaxRuns, ip \in RawIps : IpResolve(r, ip)
  \/ \E r \in 1..MaxRuns : HashResolve(r)
  \/ Tick

SpecUrl == InitUrl /\ [][NextUrl]_vars

\* ---------------------------------------------------------------- message claims

\* A payload that carries a success or a failure indicator.
Completion(d) ==
  \/ d.status = "success"
  \/ d.event = "transaction.success"
  \/ d.status = "failure"
  \/ d.event = "transaction.failure"

RECURSIVE CallbackCount(_)
\* How many of the completion actions in f are calls of an onClose callback.
CallbackCount(f) ==
  IF f = <<>> THEN 0
  ELSE (IF Head(f) \in Callbacks \ {"none"} THEN 1 ELSE 0) + CallbackCount(Tail(f))

C2_Original ==
  [][\A d \in Payloads :
       (/\ ReceiveMessage(d)
        /\ d.type = "object"
        /\ Completion(d)
        /\ phase = "mounted"
        /\ onClose = mountOnClose)
       => fired' = (IF onClose # "none" THEN <<onClose>> ELSE <<"back">>)]_vars

\* C2 amended: a completion message runs the completion action of the onClose
\* its listener was registered with: MercuryoIframeWidget calls that callback,
\* or navigates back when there is none; BuyCrypto calls that callback, or
\* does nothing when there is none.
C2_CompletionAction ==
  [][\A d \in Payloads :
       (/\ ReceiveMessage(d)
        /\ d.type = "object"
        /\ Completion(d)
        /\ phase = "mounted")
       => fired' = (IF Captured # "none" THEN <<Captured>>
                    ELSE IF comp = "MercuryoIframeWidget" THEN <<"back">>
                    ELSE <<>>)]_vars

\* BuyCrypto without a callback has dropped a success message.
C2_Witness ==
  /\ comp = "BuyCrypto"
  /\ phase = "mounted"
  /\ onClose = "none"
  /\ mountOnClose = "none"
  /\ lastMsg = [type |-> "object", status |-> "success", event |-> "absent"]
  /\ fired = <<>>
  /\ thrown = "none"

\* C5: the listener is registered from the mount on, whatever the build has
\* done; a mounted instance has exactly one listener, also after the onClose
\* prop changed; no listener is left after the teardown, and a message that
\* arrives then runs no completion action.
C5_ListenerScoped ==
  /\ [](/\ phase = "init" => listeners = <<>>
        /\ phase = "mounted" => listeners = <<[captured |-> Captured]>>
        /\ phase = "unmounted" => listeners = <<>>)
  /\ [][\A d \in Payloads :
          (ReceiveMessage(d) /\ phase = "unmounted") => fired' = <<>>]_vars

\* Torn down after Ready, with a callback and a re-subscription behind it; the
\* success message that followed ran nothing.
C5_Witness ==
  /\ comp = "BuyCrypto"
  /\ phase = "unmounted"
  /\ Session = "Ready"
  /\ onClose = "cb2"
  /\ mountOnClose = "cb1"
  /\ listeners = <<>>
  /\ lastMsg = [type |-> "object", status |-> "success", event |-> "absent"]
  /\ fired = <<>>
  /\ thrown = "none"

\* ---------------------------------------------------------------- session claims

\* A step in which the build effect ran: the mount, or an identity change.
EffectRan == Len(runs') = Len(runs) + 1

\* The run the build effect has just started.
NewRun == runs'[Len(runs')]

\* C3 as stated: when the user object changes after Ready to a user for whom
\* a new build starts, the loading indicator is shown again and the iframe of
\* the previous URL is no longer rendered.
C3_Original ==
  [][\A u \in Users :
       (SetUser(u) /\ u # user /\ u.safeAddress # <<>> /\ Session = "Ready")
       => (Render'.spinner /\ Render'.body # "iframe")]_vars

\* C4 as stated: without a new run of the build effect, Loading moves only to
\* Ready or Error, and Ready and Error are left by no event.
C4_Original ==
  [][(phase = "mounted" /\ ~EffectRan)
     => /\ Session = "Loading" => Session' \in {"Loading", "Ready", "Error"}
        /\ Session = "Ready" => Session' = "Ready"
        /\ Session = "Error" => Session' = "Error"]_vars

\* C4 amended: without a new run of the build effect, Loading moves only to
\* Ready or Error, Ready moves only to Error, and Error is left by no event.
C4_OneDirectional ==
  [][(phase = "mounted" /\ ~EffectRan)
     => /\ Session = "Loading" => Session' \in {"Loading", "Ready", "Error"}
        /\ Session = "Ready" => Session' \in {"Ready", "Error"}
        /\ Session = "Error" => Session' = "Error"]_vars

\* Ready has moved to Error: the iframe of a built URL failed to load.
C4_Witness ==
  /\ phase = "mounted"
  /\ Session = "Error"
  /\ error = "Failed to load Mercuryo widget. Please try again later."
  /\ finalUrl # <<>>

\* C6 as stated: whenever the build effect runs with no user object, the
\* loading indicator is shown and the session is Loading.
C6_Original ==
  [][(EffectRan /\ ~user'.present) => (Render'.spinner /\ Session' = "Loading")]_vars

\* C7: when the build effect runs for a user without safeAddress, the session
\* is Error with "No address provided", the loading indicator is cleared, and
\* that run never starts the IP resolution or the URL build.
C7_NoAddress ==
  /\ [][(EffectRan /\ user'.present /\ user'.safeAddress = <<>>)
        => /\ error' = "No address provided"
           /\ Session' = "Error"
           /\ ~Render'.spinner
           /\ NewRun.pc = "noaddr"]_vars
  /\ [](\A r \in 1..Len(runs) :
          (runs[r].user.present /\ runs[r].user.safeAddress = <<>>)
          => /\ runs[r].pc = "noaddr"
             /\ runs[r].userIp = <<>>
             /\ runs[r].merchantTransactionId = <<>>)

\* A user without address arrived after a URL had been built.
C7_Witness ==
  /\ phase = "mounted"
  /\ user = [present |-> TRUE, safeAddress |-> <<>>]
  /\ error = "No address provided"
  /\ ~loading
  /\ finalUrl # <<>>
  /\ runs[Len(runs)].pc = "noaddr"

\* C8: with the widget id or the widget secret unset, a build for a user with
\* an address fails when it reaches the configuration test and the session
\* becomes Error; the URL builder is never called and no URL is ever displayed.
C8_MissingConfig ==
  /\ []((widgetId = <<>> \/ widgetSecret = <<>>)
        => /\ finalUrl = <<>>
           /\ Render.body # "iframe"
           /\ \A r \in 1..Len(runs) :
                runs[r].pc \notin {"hash", "done"} /\ runs[r].merchantTransactionId = <<>>)
  /\ [][\A r \in 1..Len(runs) :
          (/\ widgetId = <<>> \/ widgetSecret = <<>>
           /\ phase = "mounted"
           /\ runs[r].pc = "ip"
           /\ runs'[r].pc # "ip")
          => /\ runs'[r].pc = "failed"
             /\ Session' = "Error"
             /\ error' = "Failed to initialize widget"
             /\ ~Render'.spinner]_vars

\* The secret is unset, the IP was resolved, and the build failed at the
\* configuration test.
C8_Witness ==
  /\ widgetId # <<>>
  /\ widgetSecret = <<>>
  /\ phase = "mounted"
  /\ runs # <<>>
  /\ runs[Len(runs)].pc = "failed"
  /\ runs[Len(runs)].userIp # <<>>
  /\ error = "Failed to initialize widget"
  /\ ~loading

\* C9: a rejected digest ends the run as a failed build, never as a built URL,
\* and sets the error; and whenever an error is set the error view is rendered
\* and the iframe is not, also while a URL of an earlier build is held.
C9_SignatureFailure ==
  /\ [][\A r \in 1..Len(runs) :
          (HashReject(r) /\ phase = "mounted")
          => /\ runs'[r].pc = "failed"
             /\ finalUrl' = finalUrl
             /\ error' = "Failed to initialize widget"
             /\ Session' = "Error"]_vars
  /\ [](error # NoError => Render.body = "error")

\* The digest of the second build was rejected while the URL of the first
\* build is still held.
C9_Witness ==
  /\ phase = "mounted"
  /\ Len(runs) = 2
  /\ runs[1].pc = "done"
  /\ runs[2].pc = "failed"
  /\ runs[2].merchantTransactionId # <<>>
  /\ error = "Failed to initialize widget"
  /\ finalUrl # <<>>
  /\ Render.body = "error"

\* The only build in flight is the one of the current user, whose address is a.
BuildingFor(a) ==
  /\ phase = "mounted"
  /\ Session = "Loading"
  /\ widgetId # <<>>
  /\ widgetSecret # <<>>
  /\ user = [present |-> TRUE, safeAddress |-> a]
  /\ runs # <<>>
  /\ runs[Len(runs)].user = user
  /\ \A r \in 1..Len(runs) : (runs[r].pc \in {"ip", "hash"}) <=> (r = Len(runs))

\* Ready with the URL the builder returned to a run for address a.
ReadyFor(a) ==
  /\ Session = "Ready"
  /\ \E r \in 1..Len(runs) :
       /\ runs[r].pc = "done"
       /\ runs[r].user.safeAddress = a
       /\ finalUrl = buildMercuryoWidgetUrl(comp, a, widgetId, widgetSecret,
                                            runs[r].userIp, runs[r].merchantTransactionId)

\* The premises of C10 no longer hold: the component is gone, a step of a
\* build failed, or the identity changed.
Given10Broken(a) ==
  \/ phase # "mounted"
  \/ error # NoError
  \/ user # [present |-> TRUE, safeAddress |-> a]

StepOrder ==
  {<<"ip", "hash">>, <<"ip", "failed">>, <<"hash", "done">>, <<"hash", "failed">>}

\* C10: while the build for the current user's address is the one in flight
\* and the configuration is present, the session reaches Ready with the URL
\* the builder returned for that address, unless the IP resolution or the
\* digest fails, the identity changes or the component is torn down; and every
\* run goes through identity, IP, signature, URL in that order.
C10_ReachesReady ==
  /\ \A a \in Addresses : BuildingFor(a) ~> (ReadyFor(a) \/ Given10Broken(a))
  /\ [][/\ \A r \in 1..Len(runs) :
             runs'[r].pc # runs[r].pc => <<runs[r].pc, runs'[r].pc>> \in StepOrder
        /\ EffectRan =>
             (NewRun.pc = "ip" <=> (user'.present /\ user'.safeAddress # <<>>))]_vars
  /\ [](\A r \in 1..Len(runs) :
          /\ runs[r].pc \in {"hash", "done"} =>
               (runs[r].userIp # <<>> /\ runs[r].merchantTransactionId # <<>>)
          /\ runs[r].pc = "ip" =>
               (runs[r].userIp = <<>> /\ runs[r].merchantTransactionId = <<>>))

\* The build has completed and its URL is displayed.
C10_Witness ==
  /\ phase = "mounted"
  /\ Session = "Ready"
  /\ Len(runs) = 1
  /\ runs[1].pc = "done"
  /\ ReadyFor(user.safeAddress)

\* ---------------------------------------------------------------- URL claims

\* The index of the first token of str that is the character ch; 0 if none.
IndexOf(str, ch) ==
  IF \E i \in 1..Len(str) : str[i] = Ch(ch)
  THEN CHOOSE i \in 1..Len(str) :
         str[i] = Ch(ch) /\ \A j \in 1..(i - 1) : str[j] # Ch(ch)
  ELSE 0

RECURSIVE SplitOn(_, _)
\* String.prototype.split on a one-character separator.
SplitOn(str, ch) ==
  LET i == IndexOf(str, ch) IN
  IF i = 0 THEN <<str>>
  ELSE <<SubSeq(str, 1, i - 1)>> \o SplitOn(SubSeq(str, i + 1, Len(str)), ch)

\* The query string of url: what follows its first "?".
QueryOf(url) ==
  LET i == IndexOf(url, "?") IN
  IF i = 0 THEN <<>> ELSE SubSeq(url, i + 1, Len(url))

\* The query parameters of url as the receiving server reads them: split on
\* "&", each piece split at its first "=".
QueryParams(url) ==
  LET pieces == SplitOn(QueryOf(url), "&") IN
  [n \in 1..Len(pieces) |->
     LET i == IndexOf(pieces[n], "=") IN
     IF i = 0 THEN [key |-> pieces[n], value |-> <<>>]
     ELSE [key   |-> SubSeq(pieces[n], 1, i - 1),
           value |-> SubSeq(pieces[n], i + 1, Len(pieces[n]))]]

\* The values url's query string gives for parameter k, one per occurrence.
ValuesOf(url, k) ==
  LET ps == QueryParams(url) IN {n \in 1..Len(ps) : ps[n].key = S(k)}

ParamValue(url, k) ==
  LET ps == QueryParams(url) IN ps[CHOOSE n \in ValuesOf(url, k) : TRUE].value

RequiredParams ==
  {"widget_id", "address", "merchant_transaction_id", "signature", "fiat_currency",
   "networks", "currency"}

\* C11 as stated: for every input, also one with "&" or "=" in it, the built
\* URL starts with the base endpoint, its query string has exactly one
\* occurrence of each required parameter, with the fixed values EUR, ETHEREUM
\* and USDC, and the signature value holds no literal colon.
C11_Original ==
  finalUrl # <<>> =>
    /\ SubSeq(finalUrl, 1, 2) = S("https://exchange.mercuryo.io/") \o S("?")
    /\ \A k \in RequiredParams : Cardinality(ValuesOf(finalUrl, k)) = 1
    /\ ParamValue(finalUrl, "fiat_currency") = S("EUR")
    /\ ParamValue(finalUrl, "networks") = S("ETHEREUM")
    /\ ParamValue(finalUrl, "currency") = S("USDC")
    /\ IndexOf(ParamValue(finalUrl, "signature"), ":") = 0

\* The URL the one build of this behaviour would have returned with secret s
\* in place of the configured one, everything else the same.
UrlWithSecret(s) ==
  buildMercuryoWidgetUrl(comp, runs[1].user.safeAddress, widgetId, s,
                         runs[1].userIp, runs[1].merchantTransactionId)

\* The text of str outside its digest tokens.
PlainText(str) == {str[i].c : i \in {j \in 1..Len(str) : str[j].h = <<>>}}

\* C12: the built URL and the URL built from the same address, widget id, IP
\* and clock value with another secret have the same parameters with the same
\* values, the signature value excepted; no parameter has the secret as its
\* value and no text of the URL outside the digest is the secret: the secret
\* is in the URL only as part of what the digest hashed.
C12_SecretOnlyHashed ==
  (finalUrl # <<>> /\ Len(runs) = 1) =>
    LET mine == QueryParams(finalUrl) IN
    /\ finalUrl = UrlWithSecret(widgetSecret)
    /\ \A s \in RawSecrets :
         LET other == QueryParams(UrlWithSecret(s)) IN
         /\ Len(other) = Len(mine)
         /\ \A n \in 1..Len(mine) :
              /\ other[n].key = mine[n].key
              /\ mine[n].key # S("signature") => other[n].value = mine[n].value
    /\ \A n \in 1..Len(mine) : mine[n].value # widgetSecret
    /\ PlainText(finalUrl) \cap PlainText(widgetSecret) = {}
    /\ \E i \in 1..Len(finalUrl) :
         /\ finalUrl[i].h # <<>>
         /\ PlainText(widgetSecret) \subseteq PlainText(finalUrl[i].h)

\* A URL has been built from an address with "&" and "=" in it.
C12_Witness ==
  /\ finalUrl # <<>>
  /\ Len(runs) = 1
  /\ widgetSecret = S("k3y")
  /\ IndexOf(runs[1].user.safeAddress, "&") # 0
  /\ runs[1].merchantTransactionId = S("1")

\* ---------------------------------------------------------------- build claims

\* The runs of buildUrl that have called buildMercuryoWidgetUrl.
Built == {r \in 1..Len(runs) : runs[r].merchantTransactionId # <<>>}

\* C13 as stated: any two invocations of buildMercuryoWidgetUrl use distinct
\* merchantTransactionId values.
C13_Original ==
  \A r1, r2 \in Built :
    r1 # r2 => runs[r1].merchantTransactionId # runs[r2].merchantTransactionId

\* ---------------------------------------------------------------- handler claims

\* C14: handling a message changes neither the loading flag, nor the error,
\* nor the widget URL, whatever the payload; a payload without a success or
\* failure indicator and a payload that is no object (null, a string,
\* undefined) run no completion action; and no exception leaves the handler.
C14_MessageFrame ==
  [][\A d \in Payloads :
       ReceiveMessage(d)
       => /\ loading' = loading
          /\ error' = error
          /\ finalUrl' = finalUrl
          /\ Session' = Session
          /\ thrown' # "escaped"
          /\ (d.type # "object" \/ ~Completion(d)) => fired' = <<>>
          /\ (d.type = "null" /\ phase = "mounted") => thrown' = "caught"]_vars

\* A null payload arrived while the widget was displayed: the TypeError was
\* caught.
C14_Witness ==
  /\ phase = "mounted"
  /\ Session = "Ready"
  /\ lastMsg.type = "null"
  /\ thrown = "caught"
  /\ fired = <<>>

\* ---------------------------------------------------------------- signature claims

\* The string a signature is the digest of.
HashedBy(sig) == sig[Len(sig)].h

\* C15: the signature of a build is "v2:" followed by the SHA-512 digest of
\* address, secret, ip and merchantTransactionId concatenated in that order
\* with nothing between them; it is the signature the displayed URL carries;
\* and a call that differs only in merchantTransactionId hashes a different
\* string.
C15_SignatureFunction ==
  \A r \in Built :
    LET address == runs[r].user.safeAddress
        ip      == runs[r].userIp
        mtid    == runs[r].merchantTransactionId
        sig     == createWidgetSignature(address, widgetSecret, ip, mtid)
        expect  == <<Ch("v2"), Ch(":"),
                     [c |-> "sha512", h |-> address \o widgetSecret \o ip \o mtid]>>
    IN /\ sig = expect
       /\ (runs[r].pc = "done" /\ phase = "mounted")
            => ParamValue(finalUrl, "signature")
                 = <<Ch("v2"), Ch("%3A"), expect[3]>>
       /\ \A n \in 0..(MaxClock + 1) :
            toString(n) # mtid
              => HashedBy(createWidgetSignature(address, widgetSecret, ip, toString(n)))
                   # HashedBy(sig)

\* A URL is displayed whose address has a "&" and a "=" in it, built in the
\* second millisecond.
C15_Witness ==
  /\ phase = "mounted"
  /\ runs # <<>>
  /\ runs[1].pc = "done"
  /\ Len(runs[1].user.safeAddress) > 1
  /\ runs[1].merchantTransactionId = S("1")
  /\ finalUrl # <<>>

\* ---------------------------------------------------------------- concurrency claims

\* The builds still waiting for getClientIp or for the digest.
InFlight == {r \in 1..Len(runs) : runs[r].pc \in {"ip", "hash"}}

\* C16 as stated, for a most recent build that succeeded: once no build is in
\* flight, the displayed URL is the one built for the most recent identity.
C16_Original ==
  (/\ phase = "mounted"
   /\ runs # <<>>
   /\ InFlight = {}
   /\ runs[Len(runs)].pc = "done"
   /\ runs[Len(runs)].user = user)
  => finalUrl = RunUrl(Len(runs))

\* C17 as stated, less the navigation-back of BuyCrypto: a completion message
\* calls the onClose of the current render when there is one, and calls no
\* callback when there is none.
C17_Original ==
  [][\A d \in Payloads :
       (/\ ReceiveMessage(d)
        /\ d.type = "object"
        /\ Completion(d)
        /\ phase = "mounted")
       => /\ onClose # "none" => fired' = <<onClose>>
          /\ onClose = "none" => CallbackCount(fired') = 0]_vars

====
